---- MODULE Spec2Model ----
\* Announcement propagation and time-windowed retention engine
\* (services/announcements.ts and utils/timeAgo.ts): train partitions, line
\* partitions, concurrent writers and a combined live subscriber.
EXTENDS Integers, Sequences, FiniteSets, TLC

VARIABLES
    now,        \* Date.now(), in clock units (MsPerHour units make one hour)
    trains,     \* trains collection: train number -> its document (NoDoc when absent)
    lines,      \* lines/<line>/announcements: line -> set of [key, data] documents
    writer,     \* per writer: position and locals of its saveAnnouncement / deleteAnnouncement call
    lastDone,   \* the call that settled last: operation, arguments, outcome
    created,    \* announcements whose saveAnnouncement call completed without error
    nCreates,   \* saveAnnouncement calls started
    nRemoves,   \* deleteAnnouncement calls started
    sequential, \* TRUE while no two calls have overlapped on the store
    sub,        \* the consumer of subscribeToCombinedAnnouncements: its closure and listeners
    reader,     \* the caller of getAnnouncements: position, snapshot, returned list
    screen      \* one live screen instance: unsubscribeRef, its subscriptions, suspended calls

vars == <<now, trains, lines, writer, lastDone, created, nCreates, nRemoves, sequential,
          sub, reader, screen>>

\* what only the writers' calls change
callVars == <<writer, lastDone, created, nCreates, nRemoves, sequential>>

----------------------------------------------------------------------------
\* Bounds of the model

\* clock units per hour (the source's hour is 60 * 60 * 1000 ms)
MsPerHour == 4
\* announcements already saved to train "200", one per clock unit, before the run
Preload == 20
\* hours the run may advance the clock by
MaxHours == 1
\* saveAnnouncement and deleteAnnouncement calls per run
MaxCalls == 3
\* saveAnnouncement and deleteAnnouncement calls per run of the specifications
\* with a subscriber or with store failures
MaxLiveCalls == 2
\* connectToTrain and startSession calls on one live screen instance
MaxScreenCalls == 3

----------------------------------------------------------------------------
\* Program constants and value spaces

MAX_ANNOUNCEMENTS == 20

DisplayHours == 1
KeepHours == 6

\* the calls that can be in progress at once; a call takes the first free slot
Writers == {1, 2}
Trains == {"200", "300"}
\* the train the announcers of the run broadcast to; "300" is never written
SaveTrains == {"200"}
TTCLines == {"1"}
NoLine == "none"
\* a train document snapshot: exists() and data().announcements
NoDoc == [exists |-> FALSE, announcements |-> <<>>]
TrainDoc(announcements) == [exists |-> TRUE, announcements |-> announcements]

\* An Announcement: createdAt and the optional lineNumber are the fields the
\* service reads; text stands for the fields it carries unread (text, priority,
\* driverName, announcerId, announcerEmail) and tells the calls apart.
Ann(t, text, line) == [createdAt |-> t, text |-> text, lineNumber |-> line]

----------------------------------------------------------------------------
\* utils/timeAgo.ts

\* a strict comparison in place of <=
isWithinHoursStrict(timestamp, hours, clock) ==
    LET diffMs == clock - timestamp
        maxMs == hours * MsPerHour
    IN  diffMs < maxMs

isWithinHours(timestamp, hours, clock) ==
    LET diffMs == clock - timestamp
        maxMs == hours * MsPerHour
    IN  diffMs <= maxMs

shouldDisplayAnnouncement(timestamp, clock) == isWithinHours(timestamp, DisplayHours, clock)

\* a keep window one hour too long
shouldKeepOneHourMore(timestamp, clock) == isWithinHours(timestamp, KeepHours + 1, clock)

shouldKeepAnnouncement(timestamp, clock) == isWithinHours(timestamp, KeepHours, clock)

----------------------------------------------------------------------------
\* Array helpers, as the JavaScript runtime computes them

\* the comparator's operands swapped: a.createdAt - b.createdAt
SortAsc(s) ==
    LET place == [i \in 1..Len(s) |->
            1 + Cardinality({j \in 1..Len(s) : s[j].createdAt < s[i].createdAt})
              + Cardinality({j \in 1..i - 1 : s[j].createdAt = s[i].createdAt})]
    IN  [k \in 1..Len(s) |-> s[CHOOSE i \in 1..Len(s) : place[i] = k]]

\* Array.prototype.sort((a, b) => b.createdAt - a.createdAt): descending and
\* stable, so the place of s[i] is after every element with a greater createdAt
\* and after the equal ones that stood before it
SortDesc(s) ==
    LET place == [i \in 1..Len(s) |->
            1 + Cardinality({j \in 1..Len(s) : s[j].createdAt > s[i].createdAt})
              + Cardinality({j \in 1..i - 1 : s[j].createdAt = s[i].createdAt})]
    IN  [k \in 1..Len(s) |-> s[CHOOSE i \in 1..Len(s) : place[i] = k]]

\* Array.prototype.slice(-n)
SliceLast(s, n) ==
    IF Len(s) <= n THEN s ELSE SubSeq(s, Len(s) - n + 1, Len(s))

\* `${createdAt}`: the decimal digits of a non-negative integer
RECURSIVE DecimalString(_)
DecimalString(n) ==
    IF n < 10 THEN <<n>> ELSE DecimalString(n \div 10) \o <<n % 10>>

Range(s) == {s[i] : i \in 1..Len(s)}

----------------------------------------------------------------------------
\* saveAnnouncement: the array written to the train document

\* docSnapshot.exists() ? data.announcements || [] : []
SnapshotAnnouncements(snapshot) ==
    IF snapshot.exists THEN snapshot.announcements ELSE <<>>

\* the write filter applying the display window
KeepFilterDisplayed(announcements, clock) ==
    SelectSeq(announcements, LAMBDA a : shouldDisplayAnnouncement(a.createdAt, clock))

KeepFilter(announcements, clock) ==
    SelectSeq(announcements, LAMBDA a : shouldKeepAnnouncement(a.createdAt, clock))

\* the cap keeping the head of the array: slice(0, MAX_ANNOUNCEMENTS)
CapLengthFirst(announcements) ==
    IF Len(announcements) > MAX_ANNOUNCEMENTS
    THEN SubSeq(announcements, 1, MAX_ANNOUNCEMENTS)
    ELSE announcements

\* the cap compared one entry too late
CapLengthLate(announcements) ==
    IF Len(announcements) > MAX_ANNOUNCEMENTS + 1
    THEN SliceLast(announcements, MAX_ANNOUNCEMENTS)
    ELSE announcements

CapLength(announcements) ==
    IF Len(announcements) > MAX_ANNOUNCEMENTS
    THEN SliceLast(announcements, MAX_ANNOUNCEMENTS)
    ELSE announcements

\* push, filter to the keep window, cap, sort
SaveList(snapshot, newAnnouncement, clock) ==
    SortDesc(CapLength(KeepFilter(
        Append(SnapshotAnnouncements(snapshot), newAnnouncement), clock)))

\* the filter's test inverted: the matching entries are the ones kept
DeleteListInverted(announcements, announcementToDelete) ==
    SelectSeq(announcements, LAMBDA a : a.createdAt = announcementToDelete.createdAt)

\* the filter comparing whole announcements instead of their createdAt
DeleteListByValue(announcements, announcementToDelete) ==
    SelectSeq(announcements, LAMBDA a : a # announcementToDelete)

\* deleteAnnouncement: the array written to the train document
DeleteList(announcements, announcementToDelete) ==
    SelectSeq(announcements, LAMBDA a : a.createdAt # announcementToDelete.createdAt)

----------------------------------------------------------------------------
\* Initial state

\* the line the i-th preloaded announcement was broadcast on: the oldest and the
\* newest one went to line "1", the others to no line
SeedLine(i) == IF i \in {1, Preload} THEN "1" ELSE NoLine

\* the i-th preloaded announcement, stamped with clock value i
Seed(i) == Ann(i, 0, SeedLine(i))

\* sequential saveAnnouncement calls i..k on a partition holding doc, the
\* j-th stamped with clock value j
RECURSIVE SeededFrom(_, _, _)
SeededFrom(doc, i, k) ==
    IF i > k THEN doc
    ELSE LET next == TrainDoc(SaveList(doc, Seed(i), i))
         IN  IF next.exists THEN SeededFrom(next, i + 1, k) ELSE doc

\* k sequential saveAnnouncement calls on an empty partition
Seeded(k) == SeededFrom(NoDoc, 1, k)

\* the broadcast train's partition after the preload
Preloaded == Seeded(Preload)

\* the line partitions after the preload: one document per announcement that
\* was broadcast on the line (lines 85-92)
PreloadedLines ==
    [l \in TTCLines |->
        {[key |-> DecimalString(i), data |-> Seed(i)] : i \in {j \in 1..Preload : SeedLine(j) = l}}]

\* the run starts while the newest preloaded announcements are still within the
\* display window; an hour later the oldest ones have left the keep window
StartClock == Preload + DisplayHours * MsPerHour - 1

NoAnn == Ann(0, 0, NoLine)

\* a writer with no call in progress
Idle == [pc |-> "idle", trainNumber |-> "200", ann |-> NoAnn, snapshot |-> NoDoc]

\* no subscription yet: empty buffers, no listener; lineAt and trainAt record
\* the clock value at which each listener last delivered; lineOn and trainOn
\* tell whether the store holds the listener, opened counts the onSnapshot
\* calls made and errs lists the consumer's onError invocations
Unsubscribed ==
    [pc |-> "none", lineNumber |-> "1", trainNumber |-> "200",
     lineAnnouncements |-> <<>>, trainAnnouncements |-> <<>>,
     linePending |-> FALSE, trainPending |-> FALSE,
     hasEmitted |-> FALSE, emitted |-> <<>>, lineAt |-> 0, trainAt |-> 0,
     lineOn |-> FALSE, trainOn |-> FALSE, opened |-> 0, errs |-> <<>>]

\* the call that returned before the current one: its train, the clock at its
\* return and the number of announcer calls made when it read
NoPrior == [trainNumber |-> "200", at |-> 0, calls |-> -1]

\* calls: the number of announcer calls made when getDoc read, -1 when one was
\* in progress; again: the last return repeated the call before it
NotReading ==
    [pc |-> "idle", trainNumber |-> "200", snapshot |-> NoDoc,
     hasReturned |-> FALSE, returned |-> <<>>, rejected |-> FALSE,
     calls |-> -1, prior |-> NoPrior, again |-> FALSE]

\* the awaits at which a connectToTrain or startSession call is suspended
ScreenAwaits ==
    {"connectSaveTrainNumber", "connectSubscribeToTrain",
     "startSaveTrainNumber", "startSaveDriverName"}

\* a null unsubscribeRef.current; subscriptions are numbered from 1 as they open
NoSubscription == 0

\* a live screen as mounted: unsubscribeRef.current is null, nothing is open,
\* no call is suspended
JustMounted ==
    [mounted |-> TRUE, current |-> NoSubscription, open |-> {}, opened |-> 0,
     calls |-> 0, pending |-> [a \in ScreenAwaits |-> 0]]

Init ==
    /\ screen = JustMounted
    /\ now = StartClock
    /\ \E preloaded \in BOOLEAN :
           /\ trains = [t \in Trains |->
                           IF preloaded /\ t \in SaveTrains THEN Preloaded ELSE NoDoc]
           /\ lines = [l \in TTCLines |-> IF preloaded THEN PreloadedLines[l] ELSE {}]
    /\ writer = [w \in Writers |-> Idle]
    /\ lastDone = [op |-> "none", trainNumber |-> "200", ann |-> NoAnn, result |-> "none",
                   rejected |-> FALSE, gone |-> {}]
    /\ created = {}
    /\ nCreates = 0
    /\ nRemoves = 0
    /\ sequential = TRUE
    /\ sub = Unsubscribed
    /\ reader = NotReading

\* a call by w starts while another writer's call is in progress
Overlaps(w) == \E v \in Writers \ {w} : writer[v].pc # "idle"

\* w is the first free slot
FirstFree(w) ==
    /\ writer[w].pc = "idle"
    /\ \A v \in Writers : v < w => writer[v].pc # "idle"

\* what a completed deleteAnnouncement of w took out of the train document: the
\* createdAt it matched in the list it read, with the number of creates
\* started so far
TakenOut(op, w, result) ==
    IF /\ op = "delete" /\ result = "ok"
       /\ \E b \in Range(writer[w].snapshot.announcements) :
              b.createdAt = writer[w].ann.createdAt
    THEN {[trainNumber |-> writer[w].trainNumber, createdAt |-> writer[w].ann.createdAt,
           serial |-> nCreates]}
    ELSE {}

\* the outcome of a call, as its caller sees the promise settle; rejected
\* records that some call of the run has been rejected, gone what the removes
\* completed so far took out
Outcome(op, w, result) ==
    [op |-> op, trainNumber |-> writer[w].trainNumber, ann |-> writer[w].ann,
     result |-> result, rejected |-> (lastDone.rejected \/ result # "ok"),
     gone |-> lastDone.gone \cup TakenOut(op, w, result)]

----------------------------------------------------------------------------
\* The store's live delivery: a write to a document marks a snapshot as due at
\* every listener attached to it

\* a store that owes the train listener nothing after a write
NotifyTrainNever(trainNumber) == sub

NotifyTrain(trainNumber) ==
    IF sub.trainOn /\ sub.trainNumber = trainNumber
    THEN [sub EXCEPT !.trainPending = TRUE]
    ELSE sub

NotifyLine(lineNumber) ==
    IF sub.lineOn /\ sub.lineNumber = lineNumber
    THEN [sub EXCEPT !.linePending = TRUE]
    ELSE sub

----------------------------------------------------------------------------
\* The clock

Tick ==
    /\ now + MsPerHour <= StartClock + MaxHours * MsPerHour
    /\ now' = now + MsPerHour
    /\ UNCHANGED <<screen, trains, lines, callVars, sub, reader>>

----------------------------------------------------------------------------
\* saveAnnouncement(trainNumber, ..., lineNumber)

\* lines 40-56: stamp createdAt = Date.now(), build newAnnouncement, call getDoc
SaveStart(w, trainNumber, lineNumber) ==
    /\ FirstFree(w)
    /\ nCreates + nRemoves < MaxCalls
    /\ writer' = [writer EXCEPT ![w] =
           [pc |-> "saveGet", trainNumber |-> trainNumber,
            ann |-> Ann(now, nCreates + 1, lineNumber), snapshot |-> NoDoc]]
    /\ nCreates' = nCreates + 1
    /\ sequential' = (sequential /\ ~Overlaps(w))
    /\ UNCHANGED <<screen, now, trains, lines, lastDone, created, nRemoves, sub, reader>>

\* line 56: the store answers getDoc
SaveGetDoc(w) ==
    /\ writer[w].pc = "saveGet"
    /\ writer' = [writer EXCEPT ![w].pc = "saveSet",
                                ![w].snapshot = trains[writer[w].trainNumber]]
    /\ UNCHANGED <<screen, now, trains, lines, lastDone, created, nCreates, nRemoves, sequential,
                   sub, reader>>

\* the call returns: saveAnnouncement resolves
SaveDone(w) ==
    /\ writer' = [writer EXCEPT ![w] = Idle]
    /\ lastDone' = Outcome("save", w, "ok")
    /\ created' = created \cup {[trainNumber |-> writer[w].trainNumber, ann |-> writer[w].ann]}

\* the array computed from the document as stored at the write, not as read
SaveWritesFresh(w) == SaveList(trains[writer[w].trainNumber], writer[w].ann, now)

\* lines 59-75: the array saveAnnouncement computes from the snapshot it read
SaveWrites(w) == SaveList(writer[w].snapshot, writer[w].ann, now)

\* lines 59-82: push, filter, cap, sort, setDoc(trainDoc, {announcements}, merge)
SaveSetDoc(w) ==
    /\ writer[w].pc = "saveSet"
    /\ trains' = [trains EXCEPT ![writer[w].trainNumber] = TrainDoc(SaveWrites(w))]
    /\ sub' = NotifyTrain(writer[w].trainNumber)
    /\ IF writer[w].ann.lineNumber # NoLine
       THEN /\ writer' = [writer EXCEPT ![w].pc = "saveLine"]
            /\ UNCHANGED <<created, lastDone>>
       ELSE SaveDone(w)
    /\ UNCHANGED <<screen, now, lines, nCreates, nRemoves, sequential, reader>>

\* the document keyed by the decimal string of another field
LineDocByText(a) == [key |-> DecimalString(a.text), data |-> a]

\* the document stored under a line partition's sub-key
LineDoc(a) == [key |-> DecimalString(a.createdAt), data |-> a]

\* a line write that also drops the documents past the keep window
SetLineDocKept(coll, a) ==
    {d \in coll : /\ d.key # DecimalString(a.createdAt)
                  /\ shouldKeepAnnouncement(d.data.createdAt, now)} \cup {LineDoc(a)}

\* setDoc(ref, data) without merge: the document at that key is replaced
SetLineDoc(coll, a) == {d \in coll : d.key # DecimalString(a.createdAt)} \cup {LineDoc(a)}

\* deleteDoc(ref)
DeleteLineDoc(coll, a) == {d \in coll : d.key # DecimalString(a.createdAt)}

\* lines 85-92: setDoc(lines/<lineNumber>/announcements/`${now}`, newAnnouncement)
SaveLine(w) ==
    /\ writer[w].pc = "saveLine"
    /\ lines' = [lines EXCEPT ![writer[w].ann.lineNumber] = SetLineDoc(@, writer[w].ann)]
    /\ sub' = NotifyLine(writer[w].ann.lineNumber)
    /\ SaveDone(w)
    /\ UNCHANGED <<screen, now, trains, nCreates, nRemoves, sequential, reader>>

----------------------------------------------------------------------------
\* deleteAnnouncement(trainNumber, announcementToDelete)

\* announcements a caller can hold: one it created, the newest or the oldest
\* preloaded one it sees stored, or one that matches nothing (createdAt 0 is
\* never stamped)
Stored == UNION {Range(trains[t].announcements) : t \in Trains}
DeleteTargets ==
    {c.ann : c \in created}
    \cup {a \in Stored : a.createdAt \in {1, Preload}}
    \cup {NoAnn}

\* lines 265-269: getDoc(trainDoc), and the store's answer
DeleteGetDoc(w, trainNumber, announcementToDelete) ==
    /\ FirstFree(w)
    /\ nCreates + nRemoves < MaxCalls
    /\ writer' = [writer EXCEPT ![w] =
           [pc |-> "deleteSet", trainNumber |-> trainNumber,
            ann |-> announcementToDelete, snapshot |-> trains[trainNumber]]]
    /\ nRemoves' = nRemoves + 1
    /\ sequential' = (sequential /\ ~Overlaps(w))
    /\ UNCHANGED <<screen, now, trains, lines, lastDone, created, nCreates, sub, reader>>

\* a missing document taken for an empty one, as saveAnnouncement does
DeleteNotFoundAsEmpty(w) ==
    /\ writer[w].pc = "deleteSet"
    /\ ~writer[w].snapshot.exists
    /\ trains' = [trains EXCEPT ![writer[w].trainNumber] = TrainDoc(<<>>)]
    /\ writer' = [writer EXCEPT ![w] = Idle]
    /\ lastDone' = Outcome("delete", w, "ok")
    /\ UNCHANGED <<screen, now, lines, created, nCreates, nRemoves, sequential, sub, reader>>

\* lines 272-274, 304-307: throw new Error("Train document not found"), rethrown
DeleteNotFound(w) ==
    /\ writer[w].pc = "deleteSet"
    /\ ~writer[w].snapshot.exists
    /\ writer' = [writer EXCEPT ![w] = Idle]
    /\ lastDone' = Outcome("delete", w, "error")
    /\ UNCHANGED <<screen, now, trains, lines, created, nCreates, nRemoves, sequential, sub, reader>>

\* the call returns: deleteAnnouncement resolves
DeleteDone(w) ==
    /\ writer' = [writer EXCEPT ![w] = Idle]
    /\ lastDone' = Outcome("delete", w, "ok")

\* lines 277-293: filter by createdAt, setDoc(trainDoc, {announcements}, merge)
DeleteSetDoc(w) ==
    /\ writer[w].pc = "deleteSet"
    /\ writer[w].snapshot.exists
    /\ trains' = [trains EXCEPT ![writer[w].trainNumber] =
                      TrainDoc(DeleteList(writer[w].snapshot.announcements, writer[w].ann))]
    /\ sub' = NotifyTrain(writer[w].trainNumber)
    /\ IF writer[w].ann.lineNumber # NoLine
       THEN /\ writer' = [writer EXCEPT ![w].pc = "deleteLine"]
            /\ UNCHANGED lastDone
       ELSE DeleteDone(w)
    /\ UNCHANGED <<screen, now, lines, created, nCreates, nRemoves, sequential, reader>>

\* lines 296-303: deleteDoc(lines/<lineNumber>/announcements/`${createdAt}`)
DeleteLine(w) ==
    /\ writer[w].pc = "deleteLine"
    /\ lines' = [lines EXCEPT ![writer[w].ann.lineNumber] = DeleteLineDoc(@, writer[w].ann)]
    /\ sub' = NotifyLine(writer[w].ann.lineNumber)
    /\ DeleteDone(w)
    /\ UNCHANGED <<screen, now, trains, created, nCreates, nRemoves, sequential, reader>>

----------------------------------------------------------------------------
\* Concurrent writers on the store

Next ==
    \/ Tick
    \/ \E w \in Writers, t \in SaveTrains, l \in TTCLines \cup {NoLine} : SaveStart(w, t, l)
    \/ \E w \in Writers : SaveGetDoc(w)
    \/ \E w \in Writers : SaveSetDoc(w)
    \/ \E w \in Writers : SaveLine(w)
    \/ \E w \in Writers, t \in Trains, a \in DeleteTargets : DeleteGetDoc(w, t, a)
    \/ \E w \in Writers : DeleteNotFound(w)
    \/ \E w \in Writers : DeleteSetDoc(w)
    \/ \E w \in Writers : DeleteLine(w)

Spec == Init /\ [][Next]_vars

----------------------------------------------------------------------------
\* Reads and live subscriptions

\* document ids compare as strings: digit by digit, a proper prefix first
KeyLess(a, b) ==
    \/ \E i \in 1..Len(a) :
           /\ i <= Len(b)
           /\ \A j \in 1..i - 1 : a[j] = b[j]
           /\ a[i] < b[i]
    \/ /\ Len(a) < Len(b)
       /\ \A j \in 1..Len(a) : a[j] = b[j]

\* snapshot.forEach over a collection: the documents' data in document-id order
CollectionData(coll) ==
    LET Place(d) == 1 + Cardinality({e \in coll : KeyLess(e.key, d.key)})
    IN  [k \in 1..Cardinality(coll) |-> (CHOOSE d \in coll : Place(d) = k).data]

\* the list of a train document sorted but not filtered
TrainDeliveryUnfiltered(doc, clock) ==
    IF doc.exists THEN SortDesc(doc.announcements) ELSE <<>>

\* subscribeToAnnouncements lines 110-123 and getAnnouncements lines 242-253:
\* the shouldDisplay-filtered, sorted list of a train document, [] when absent
TrainDelivery(doc, clock) ==
    IF doc.exists
    THEN SortDesc(SelectSeq(doc.announcements,
                            LAMBDA a : shouldDisplayAnnouncement(a.createdAt, clock)))
    ELSE <<>>

\* the hour's boundary excluded: createdAt > oneHourAgo
SinceOneHourAgoExclusive(announcements, clock) ==
    LET oneHourAgo == clock - MsPerHour
    IN  SelectSeq(announcements, LAMBDA a : a.createdAt > oneHourAgo)

\* lines 158-159 and 185-186: createdAt >= Date.now() - 60 * 60 * 1000
SinceOneHourAgo(announcements, clock) ==
    LET oneHourAgo == clock - MsPerHour
    IN  SelectSeq(announcements, LAMBDA a : a.createdAt >= oneHourAgo)

\* subscribeToLineAnnouncements lines 149-162: the list passed to onUpdate
LineDelivery(coll, clock) == SortDesc(SinceOneHourAgo(CollectionData(coll), clock))

\* a list with the later copies of each entry left out
RECURSIVE WithoutCopies(_)
WithoutCopies(announcements) ==
    IF announcements = <<>> THEN <<>>
    ELSE LET rest == WithoutCopies(Tail(announcements))
         IN  IF Head(announcements) \in Range(rest)
             THEN rest
             ELSE <<Head(announcements)>> \o rest

\* the merged list with each announcement once
CombineDeduplicated(lineAnnouncements, trainAnnouncements, clock) ==
    SortDesc(WithoutCopies(SinceOneHourAgo(lineAnnouncements \o trainAnnouncements, clock)))

\* the merged list filtered but not sorted again
CombineUnsorted(lineAnnouncements, trainAnnouncements, clock) ==
    SinceOneHourAgo(lineAnnouncements \o trainAnnouncements, clock)

\* combineAndUpdate lines 183-189: the list passed to the consumer's onUpdate
Combine(lineAnnouncements, trainAnnouncements, clock) ==
    SortDesc(SinceOneHourAgo(lineAnnouncements \o trainAnnouncements, clock))

\* subscribeToCombinedAnnouncements lines 191-221: both listeners are attached;
\* the store owes each its first snapshot
Subscribe(lineNumber, trainNumber) ==
    /\ sub.pc = "none"
    /\ sub' = [sub EXCEPT !.pc = "open", !.lineNumber = lineNumber,
                          !.trainNumber = trainNumber,
                          !.lineOn = TRUE, !.trainOn = TRUE, !.opened = 2,
                          !.linePending = TRUE, !.trainPending = TRUE]
    /\ UNCHANGED <<screen, now, trains, lines, callVars, reader>>

\* lines 198-201: the line listener fires, fills its buffer and emits
DeliverLine ==
    /\ sub.lineOn /\ sub.linePending
    /\ LET buffer == LineDelivery(lines[sub.lineNumber], now)
       IN  sub' = [sub EXCEPT !.linePending = FALSE,
                              !.lineAnnouncements = buffer, !.lineAt = now,
                              !.hasEmitted = TRUE,
                              !.emitted = Combine(buffer, sub.trainAnnouncements, now)]
    /\ UNCHANGED <<screen, now, trains, lines, callVars, reader>>

\* lines 212-215: the train listener fires, fills its buffer and emits
DeliverTrain ==
    /\ sub.trainOn /\ sub.trainPending
    /\ LET buffer == TrainDelivery(trains[sub.trainNumber], now)
       IN  sub' = [sub EXCEPT !.trainPending = FALSE,
                              !.trainAnnouncements = buffer, !.trainAt = now,
                              !.hasEmitted = TRUE,
                              !.emitted = Combine(sub.lineAnnouncements, buffer, now)]
    /\ UNCHANGED <<screen, now, trains, lines, callVars, reader>>

\* a disposer that calls unsubscribeLine only
DisposeLineOnly ==
    /\ sub.pc = "open"
    /\ sub' = [sub EXCEPT !.pc = "closed", !.lineOn = FALSE, !.linePending = FALSE]
    /\ UNCHANGED <<screen, now, trains, lines, callVars, reader>>

\* lines 223-230: the disposer calls unsubscribeLine and unsubscribeTrain, each
\* when it is set; a detached listener receives no further snapshot
Dispose ==
    /\ sub.pc = "open"
    /\ sub' = [sub EXCEPT !.pc = "closed", !.lineOn = FALSE, !.trainOn = FALSE,
                          !.linePending = FALSE, !.trainPending = FALSE]
    /\ UNCHANGED <<screen, now, trains, lines, callVars, reader>>

\* the number of announcer calls made so far, -1 while one is in progress
CallsSoFar ==
    IF \A w \in Writers : writer[w].pc = "idle" THEN nCreates + nRemoves ELSE -1

\* getAnnouncements lines 234-239: getDoc(trainDoc), and the store's answer;
\* the consumer lists a train while it holds no open subscription
ReadGetDoc(trainNumber) ==
    /\ reader.pc = "idle"
    /\ sub.pc # "open"
    /\ reader' = [reader EXCEPT !.pc = "got", !.trainNumber = trainNumber,
                                !.snapshot = trains[trainNumber],
                                !.calls = CallsSoFar]
    /\ UNCHANGED <<screen, now, trains, lines, callVars, sub>>

\* the call about to return has the train and the clock of the call that
\* returned before it, and the announcer made no call between the two reads
RepeatsPrior ==
    /\ reader.hasReturned
    /\ reader.prior.trainNumber = reader.trainNumber
    /\ reader.prior.at = now
    /\ reader.calls # -1 /\ reader.prior.calls = reader.calls

\* what getAnnouncements leaves behind when it returns
Returned ==
    [reader EXCEPT !.pc = "idle", !.snapshot = NoDoc,
                   !.hasReturned = TRUE, !.rejected = FALSE,
                   !.returned = TrainDelivery(reader.snapshot, now),
                   !.calls = -1, !.again = RepeatsPrior,
                   !.prior = [trainNumber |-> reader.trainNumber, at |-> now,
                              calls |-> reader.calls]]

\* a getAnnouncements that writes the list it filtered back to the document
ReadReturnPrunes ==
    /\ reader.pc = "got"
    /\ reader' = Returned
    /\ trains' = IF reader.snapshot.exists
                 THEN [trains EXCEPT ![reader.trainNumber] =
                          TrainDoc(TrainDelivery(reader.snapshot, now))]
                 ELSE trains
    /\ UNCHANGED <<screen, now, lines, callVars, sub>>

\* getAnnouncements lines 242-253: filter, sort, return
ReadReturn ==
    /\ reader.pc = "got"
    /\ reader' = Returned
    /\ UNCHANGED <<screen, now, trains, lines, callVars, sub>>

\* One announcer, one combined subscriber, and one reader that lists the trains
\* once the subscription is disposed of and the announcer has made its calls
LiveNext ==
    \/ Tick
    \/ /\ nCreates + nRemoves < MaxLiveCalls
       /\ \E t \in SaveTrains, l \in TTCLines \cup {NoLine} : SaveStart(1, t, l)
    \/ SaveGetDoc(1)
    \/ SaveSetDoc(1)
    \/ SaveLine(1)
    \/ /\ nCreates + nRemoves < MaxLiveCalls
       /\ \E t \in Trains, a \in DeleteTargets : DeleteGetDoc(1, t, a)
    \/ DeleteNotFound(1)
    \/ DeleteSetDoc(1)
    \/ DeleteLine(1)
    \/ \E l \in TTCLines, t \in Trains : Subscribe(l, t)
    \/ DeliverLine
    \/ DeliverTrain
    \/ Dispose
    \/ /\ sub.pc = "closed" /\ CallsSoFar = MaxLiveCalls
       /\ \E t \in Trains : ReadGetDoc(t)
    \/ ReadReturn

LiveSpec == Init /\ [][LiveNext]_vars

\* the store delivers every snapshot it owes to an attached listener
FairDelivery == WF_vars(DeliverLine) /\ WF_vars(DeliverTrain)

\* One announcer and one combined subscriber
DeliveryNext ==
    \/ Tick
    \/ /\ nCreates + nRemoves < MaxLiveCalls
       /\ \E t \in SaveTrains, l \in TTCLines \cup {NoLine} : SaveStart(1, t, l)
    \/ SaveGetDoc(1)
    \/ SaveSetDoc(1)
    \/ SaveLine(1)
    \/ /\ nCreates + nRemoves < MaxLiveCalls
       /\ \E t \in Trains, a \in DeleteTargets : DeleteGetDoc(1, t, a)
    \/ DeleteNotFound(1)
    \/ DeleteSetDoc(1)
    \/ DeleteLine(1)
    \/ \E l \in TTCLines, t \in Trains : Subscribe(l, t)
    \/ DeliverLine
    \/ DeliverTrain
    \/ Dispose

\* the run starts on a store that holds nothing yet
InitEmptyStore == Init /\ \A t \in Trains : ~trains[t].exists

DeliverySpec == InitEmptyStore /\ [][DeliveryNext]_vars /\ FairDelivery

----------------------------------------------------------------------------
\* Store failures: a getDoc, setDoc or deleteDoc promise rejects, and the
\* catch block of the calling function runs

\* result of a call that a store failure made reject
StoreError == "storeError"

\* the pc values of a writer whose awaited store call has rejected
FailedPcs ==
    {"saveGetFailed", "saveSetFailed", "saveLineFailed",
     "deleteGetFailed", "deleteSetFailed", "deleteLineFailed"}

\* line 56: getDoc rejects
SaveGetDocFails(w) ==
    /\ writer[w].pc = "saveGet"
    /\ writer' = [writer EXCEPT ![w].pc = "saveGetFailed"]
    /\ UNCHANGED <<screen, now, trains, lines, lastDone, created, nCreates, nRemoves, sequential,
                   sub, reader>>

\* lines 78-82: setDoc on the train document rejects
SaveSetDocFails(w) ==
    /\ writer[w].pc = "saveSet"
    /\ writer' = [writer EXCEPT ![w].pc = "saveSetFailed"]
    /\ UNCHANGED <<screen, now, trains, lines, lastDone, created, nCreates, nRemoves, sequential,
                   sub, reader>>

\* lines 85-92: setDoc on the line document rejects
SaveLineFails(w) ==
    /\ writer[w].pc = "saveLine"
    /\ writer' = [writer EXCEPT ![w].pc = "saveLineFailed"]
    /\ UNCHANGED <<screen, now, trains, lines, lastDone, created, nCreates, nRemoves, sequential,
                   sub, reader>>

\* a compensating action: the catch block takes the announcement out of the
\* train document again before it rethrows
SaveCatchRollsBack(w) ==
    /\ writer[w].pc \in {"saveGetFailed", "saveSetFailed", "saveLineFailed"}
    /\ writer' = [writer EXCEPT ![w] = Idle]
    /\ lastDone' = Outcome("save", w, StoreError)
    /\ trains' = [trains EXCEPT ![writer[w].trainNumber] =
                      IF writer[w].pc = "saveLineFailed"
                      THEN TrainDoc(SelectSeq(@.announcements, LAMBDA a : a # writer[w].ann))
                      ELSE @]
    /\ UNCHANGED <<screen, now, lines, created, nCreates, nRemoves, sequential, sub, reader>>

\* an error swallowed: the call resolves as if it had succeeded
SaveCatchSwallows(w) ==
    /\ writer[w].pc \in {"saveGetFailed", "saveSetFailed", "saveLineFailed"}
    /\ writer' = [writer EXCEPT ![w] = Idle]
    /\ lastDone' = Outcome("save", w, "ok")
    /\ UNCHANGED <<screen, now, trains, lines, created, nCreates, nRemoves, sequential, sub, reader>>

\* lines 93-96: catch (error) { console.error(...); throw error; }
SaveCatch(w) ==
    /\ writer[w].pc \in {"saveGetFailed", "saveSetFailed", "saveLineFailed"}
    /\ writer' = [writer EXCEPT ![w] = Idle]
    /\ lastDone' = Outcome("save", w, StoreError)
    /\ UNCHANGED <<screen, now, trains, lines, created, nCreates, nRemoves, sequential, sub, reader>>

\* line 269: deleteAnnouncement is called and its getDoc rejects
DeleteGetDocFails(w, trainNumber, announcementToDelete) ==
    /\ FirstFree(w)
    /\ nCreates + nRemoves < MaxCalls
    /\ writer' = [writer EXCEPT ![w] =
           [pc |-> "deleteGetFailed", trainNumber |-> trainNumber,
            ann |-> announcementToDelete, snapshot |-> NoDoc]]
    /\ nRemoves' = nRemoves + 1
    /\ sequential' = (sequential /\ ~Overlaps(w))
    /\ UNCHANGED <<screen, now, trains, lines, lastDone, created, nCreates, sub, reader>>

\* lines 289-293: setDoc on the train document rejects
DeleteSetDocFails(w) ==
    /\ writer[w].pc = "deleteSet"
    /\ writer[w].snapshot.exists
    /\ writer' = [writer EXCEPT ![w].pc = "deleteSetFailed"]
    /\ UNCHANGED <<screen, now, trains, lines, lastDone, created, nCreates, nRemoves, sequential,
                   sub, reader>>

\* lines 296-303: deleteDoc on the line document rejects
DeleteLineFails(w) ==
    /\ writer[w].pc = "deleteLine"
    /\ writer' = [writer EXCEPT ![w].pc = "deleteLineFailed"]
    /\ UNCHANGED <<screen, now, trains, lines, lastDone, created, nCreates, nRemoves, sequential,
                   sub, reader>>

\* a compensating action: the catch block writes the list the call read back
\* to the train document before it rethrows
DeleteCatchRollsBack(w) ==
    /\ writer[w].pc \in {"deleteGetFailed", "deleteSetFailed", "deleteLineFailed"}
    /\ writer' = [writer EXCEPT ![w] = Idle]
    /\ lastDone' = Outcome("delete", w, StoreError)
    /\ trains' = [trains EXCEPT ![writer[w].trainNumber] =
                      IF writer[w].pc = "deleteLineFailed" THEN writer[w].snapshot ELSE @]
    /\ UNCHANGED <<screen, now, lines, created, nCreates, nRemoves, sequential, sub, reader>>

\* lines 304-307: catch (error) { console.error(...); throw error; }
DeleteCatch(w) ==
    /\ writer[w].pc \in {"deleteGetFailed", "deleteSetFailed", "deleteLineFailed"}
    /\ writer' = [writer EXCEPT ![w] = Idle]
    /\ lastDone' = Outcome("delete", w, StoreError)
    /\ UNCHANGED <<screen, now, trains, lines, created, nCreates, nRemoves, sequential, sub, reader>>

\* getAnnouncements line 239: getDoc rejects
ReadGetDocFails(trainNumber) ==
    /\ reader.pc = "idle"
    /\ sub.pc # "open"
    /\ reader' = [reader EXCEPT !.pc = "failed", !.trainNumber = trainNumber]
    /\ UNCHANGED <<screen, now, trains, lines, callVars, sub>>

\* getAnnouncements lines 254-257: catch (error) { console.error(...); throw error; }
ReadCatch ==
    /\ reader.pc = "failed"
    /\ reader' = [reader EXCEPT !.pc = "idle", !.hasReturned = FALSE, !.returned = <<>>,
                                !.rejected = TRUE, !.calls = -1, !.again = FALSE]
    /\ UNCHANGED <<screen, now, trains, lines, callVars, sub>>

\* the writers have made all their calls and every call has settled
WritersDone ==
    /\ nCreates + nRemoves = MaxLiveCalls
    /\ \A w \in Writers : writer[w].pc = "idle"

\* Concurrent writers on a store whose calls may fail, and a reader that lists
\* the trains once the writers are done
FaultNext ==
    \/ Next /\ nCreates' + nRemoves' <= MaxLiveCalls
    \/ \E w \in Writers : SaveGetDocFails(w)
    \/ \E w \in Writers : SaveSetDocFails(w)
    \/ \E w \in Writers : SaveLineFails(w)
    \/ \E w \in Writers : SaveCatch(w)
    \/ /\ nCreates + nRemoves < MaxLiveCalls
       /\ \E w \in Writers, t \in Trains, a \in DeleteTargets : DeleteGetDocFails(w, t, a)
    \/ \E w \in Writers : DeleteSetDocFails(w)
    \/ \E w \in Writers : DeleteLineFails(w)
    \/ \E w \in Writers : DeleteCatch(w)
    \/ /\ WritersDone
       /\ \E t \in Trains : ReadGetDoc(t)
    \/ ReadReturn
    \/ /\ WritersDone
       /\ \E t \in Trains : ReadGetDocFails(t)
    \/ ReadCatch

FaultSpec == Init /\ [][FaultNext]_vars

----------------------------------------------------------------------------
\* subscribeToCombinedAnnouncements step by step, with the failures of its two
\* underlying subscriptions and of their live channels

\* the errors handed to the consumer's onError
LineSubscribeError == "lineSubscribe"
TrainSubscribeError == "trainSubscribe"
LineChannelError == "lineChannel"
TrainChannelError == "trainChannel"

\* lines 194-203 with 142-170: the awaited subscribeToLineAnnouncements attaches
\* its listener to the line collection
SubscribeLine(lineNumber, trainNumber) ==
    /\ sub.pc = "none"
    /\ sub' = [sub EXCEPT !.pc = "lineDone", !.lineNumber = lineNumber,
                          !.trainNumber = trainNumber,
                          !.lineOn = TRUE, !.opened = @ + 1, !.linePending = TRUE]
    /\ UNCHANGED <<screen, now, trains, lines, callVars, reader>>

\* the catch block calling onError twice
SubscribeLineFailsTwice(lineNumber, trainNumber) ==
    /\ sub.pc = "none"
    /\ sub' = [sub EXCEPT !.pc = "lineDone", !.lineNumber = lineNumber,
                          !.trainNumber = trainNumber,
                          !.errs = @ \o <<LineSubscribeError, LineSubscribeError>>]
    /\ UNCHANGED <<screen, now, trains, lines, callVars, reader>>

\* lines 194-207: subscribeToLineAnnouncements rejects before it attaches a
\* listener; the catch block calls onError and unsubscribeLine stays null
SubscribeLineFails(lineNumber, trainNumber) ==
    /\ sub.pc = "none"
    /\ sub' = [sub EXCEPT !.pc = "lineDone", !.lineNumber = lineNumber,
                          !.trainNumber = trainNumber,
                          !.errs = Append(@, LineSubscribeError)]
    /\ UNCHANGED <<screen, now, trains, lines, callVars, reader>>

\* lines 209-217 with 105-132: subscribeToAnnouncements attaches its listener to
\* the train document, and the disposer is returned (lines 223-230)
SubscribeTrain ==
    /\ sub.pc = "lineDone"
    /\ sub' = [sub EXCEPT !.pc = "open", !.trainOn = TRUE, !.opened = @ + 1,
                          !.trainPending = TRUE]
    /\ UNCHANGED <<screen, now, trains, lines, callVars, reader>>

\* lines 209-221: subscribeToAnnouncements throws; the catch block calls onError,
\* unsubscribeTrain stays null and the disposer is returned
SubscribeTrainFails ==
    /\ sub.pc = "lineDone"
    /\ sub' = [sub EXCEPT !.pc = "open", !.errs = Append(@, TrainSubscribeError)]
    /\ UNCHANGED <<screen, now, trains, lines, callVars, reader>>

\* the error callback attaching a new listener to the line collection
LineChannelFailsAndReopens ==
    /\ sub.lineOn
    /\ sub' = [sub EXCEPT !.linePending = TRUE, !.opened = @ + 1,
                          !.errs = Append(@, LineChannelError)]
    /\ UNCHANGED <<screen, now, trains, lines, callVars, reader>>

\* lines 164-167: the line listener's channel fails; the store ends the
\* listener and the error callback calls onError
LineChannelFails ==
    /\ sub.lineOn
    /\ sub' = [sub EXCEPT !.lineOn = FALSE, !.linePending = FALSE,
                          !.errs = Append(@, LineChannelError)]
    /\ UNCHANGED <<screen, now, trains, lines, callVars, reader>>

\* lines 125-128: the train listener's channel fails; the store ends the
\* listener and the error callback calls onError
TrainChannelFails ==
    /\ sub.trainOn
    /\ sub' = [sub EXCEPT !.trainOn = FALSE, !.trainPending = FALSE,
                          !.errs = Append(@, TrainChannelError)]
    /\ UNCHANGED <<screen, now, trains, lines, callVars, reader>>

\* One announcer and one combined subscriber whose subscriptions and channels
\* may fail
ChannelNext ==
    \/ Tick
    \/ /\ nCreates + nRemoves < MaxLiveCalls
       /\ \E t \in SaveTrains, l \in TTCLines \cup {NoLine} : SaveStart(1, t, l)
    \/ SaveGetDoc(1)
    \/ SaveSetDoc(1)
    \/ SaveLine(1)
    \/ /\ nCreates + nRemoves < MaxLiveCalls
       /\ \E t \in Trains, a \in DeleteTargets : DeleteGetDoc(1, t, a)
    \/ DeleteNotFound(1)
    \/ DeleteSetDoc(1)
    \/ DeleteLine(1)
    \/ \E l \in TTCLines, t \in Trains : SubscribeLine(l, t)
    \/ \E l \in TTCLines, t \in Trains : SubscribeLineFails(l, t)
    \/ SubscribeTrain
    \/ SubscribeTrainFails
    \/ DeliverLine
    \/ DeliverTrain
    \/ LineChannelFails
    \/ TrainChannelFails
    \/ Dispose

ChannelSpec == Init /\ [][ChannelNext]_vars

----------------------------------------------------------------------------
\* The live screen (app/live.tsx): connectToTrain, startSession,
\* disconnectFromTrain and the cleanup on unmount share unsubscribeRef. A call
\* suspended at an await resumes in any order with the other events, also after
\* the screen has unmounted.

Suspend(at) == [screen EXCEPT !.pending[at] = @ + 1, !.calls = @ + 1]

Resume(from, to) ==
    [screen EXCEPT !.pending[from] = @ - 1, !.pending[to] = @ + 1]

\* if (unsubscribeRef.current) unsubscribeRef.current();
\* unsubscribeRef.current = subscribeToAnnouncements(...)
Resubscribe(from) ==
    [screen EXCEPT !.pending[from] = @ - 1,
                   !.open = (@ \ {screen.current}) \cup {screen.opened + 1},
                   !.current = screen.opened + 1,
                   !.opened = @ + 1]

\* connectToTrain up to its first await
ConnectToTrain ==
    /\ screen.mounted
    /\ screen.calls < MaxScreenCalls
    /\ screen' = Suspend("connectSaveTrainNumber")
    /\ UNCHANGED <<now, trains, lines, callVars, sub, reader>>

\* await saveTrainNumber(...) resolves; the call goes on to await subscribeToTrain(...)
ConnectSavedTrainNumber ==
    /\ screen.pending["connectSaveTrainNumber"] > 0
    /\ screen' = Resume("connectSaveTrainNumber", "connectSubscribeToTrain")
    /\ UNCHANGED <<now, trains, lines, callVars, sub, reader>>

\* await subscribeToTrain(...) resolves; the rest of connectToTrain runs
ConnectSubscribes ==
    /\ screen.pending["connectSubscribeToTrain"] > 0
    /\ screen' = Resubscribe("connectSubscribeToTrain")
    /\ UNCHANGED <<now, trains, lines, callVars, sub, reader>>

\* startSession up to its first await
StartSession ==
    /\ screen.mounted
    /\ screen.calls < MaxScreenCalls
    /\ screen' = Suspend("startSaveTrainNumber")
    /\ UNCHANGED <<now, trains, lines, callVars, sub, reader>>

\* await saveTrainNumber(...) resolves; the call goes on to await saveDriverName(...)
StartSavedTrainNumber ==
    /\ screen.pending["startSaveTrainNumber"] > 0
    /\ screen' = Resume("startSaveTrainNumber", "startSaveDriverName")
    /\ UNCHANGED <<now, trains, lines, callVars, sub, reader>>

\* await saveDriverName(...) resolves; the rest of startSession runs
StartSubscribes ==
    /\ screen.pending["startSaveDriverName"] > 0
    /\ screen' = Resubscribe("startSaveDriverName")
    /\ UNCHANGED <<now, trains, lines, callVars, sub, reader>>

\* disconnectFromTrain: the disposer is called and the ref nulled before the
\* call's only await; what follows the await changes the displayed state alone
DisconnectFromTrain ==
    /\ screen.mounted
    /\ screen' = [screen EXCEPT !.open = @ \ {screen.current},
                                !.current = NoSubscription]
    /\ UNCHANGED <<now, trains, lines, callVars, sub, reader>>

\* the effect cleanup on unmount: the disposer in the ref is called; the ref
\* keeps it
Unmount ==
    /\ screen.mounted
    /\ screen' = [screen EXCEPT !.mounted = FALSE, !.open = @ \ {screen.current}]
    /\ UNCHANGED <<now, trains, lines, callVars, sub, reader>>

ScreenNext ==
    \/ ConnectToTrain
    \/ ConnectSavedTrainNumber
    \/ ConnectSubscribes
    \/ StartSession
    \/ StartSavedTrainNumber
    \/ StartSubscribes
    \/ DisconnectFromTrain
    \/ Unmount

ScreenSpec == Init /\ [][ScreenNext]_vars

----------------------------------------------------------------------------
\* Properties of the stored train partitions

\* writer w's saveAnnouncement performs its setDoc on the train document
SaveWriteStep(w) == writer[w].pc = "saveSet" /\ writer'[w].pc \in {"saveLine", "idle"}

\* writer w's deleteAnnouncement leaves its read: it throws or performs its setDoc
DeleteWriteStep(w) == writer[w].pc = "deleteSet" /\ writer'[w].pc \in {"deleteLine", "idle"}

AllIdle == \A w \in Writers : writer[w].pc = "idle"

SortedDesc(s) == \A i \in 1..Len(s) - 1 : s[i].createdAt >= s[i + 1].createdAt

StrictlyDesc(s) == \A i \in 1..Len(s) - 1 : s[i].createdAt > s[i + 1].createdAt

WithinKeepWindow(a) == now - a.createdAt <= KeepHours * MsPerHour

WithinDisplayWindow(a) == now - a.createdAt <= DisplayHours * MsPerHour

\* what a create holds after pushing its announcement and applying the keep window
KeptAtWrite(w) ==
    SelectSeq(Append(SnapshotAnnouncements(writer[w].snapshot), writer[w].ann),
              WithinKeepWindow)

\* C1: when a create leaves more than 20 entries after the keep-window
\* filter, the list written back is the 20 entries with the greatest createdAt
\* among them: 20 entries, and no dropped entry is newer than a written one.
C1_CapDropsOldest ==
    [][\A w \in Writers : SaveWriteStep(w) /\ Len(KeptAtWrite(w)) > MAX_ANNOUNCEMENTS =>
          LET written == trains'[writer[w].trainNumber].announcements
              dropped == Range(KeptAtWrite(w)) \ Range(written)
          IN  /\ Len(written) = MAX_ANNOUNCEMENTS
              /\ \A d \in dropped, e \in Range(written) : d.createdAt <= e.createdAt]_vars

\* C2: a train partition written only by create and remove, in any
\* interleaving, never stores more than 20 announcements.
C2_AtMostMax == \A t \in Trains : Len(trains[t].announcements) <= MAX_ANNOUNCEMENTS

\* a full partition after creates and a remove whose calls overlapped
C2_Witness ==
    /\ AllIdle /\ ~sequential /\ nCreates >= 2 /\ nRemoves >= 1
    /\ Len(trains["200"].announcements) = MAX_ANNOUNCEMENTS

\* C3 as stated: after every write the stored list is sorted by createdAt
\* descending, and after each create it is strictly descending, also when
\* creates are stamped with the same clock value.
C3_StrictAfterCreate ==
    [][/\ \A w \in Writers : SaveWriteStep(w) =>
              StrictlyDesc(trains'[writer[w].trainNumber].announcements)
       /\ \A w \in Writers : DeleteWriteStep(w) =>
              SortedDesc(trains'[writer[w].trainNumber].announcements)]_vars

\* C3 as amended: every stored list is sorted by createdAt descending, entries
\* stamped with the same clock value being adjacent; it is strictly descending
\* whenever its entries carry distinct createdAt values.
C3_SortedDescending ==
    \A t \in Trains :
        LET s == trains[t].announcements
        IN  /\ SortedDesc(s)
            /\ (\A i, j \in 1..Len(s) : i # j => s[i].createdAt # s[j].createdAt)
                   => StrictlyDesc(s)

\* two creates stamped with the same clock value are stored side by side, and
\* a remove has written since
C3_Witness ==
    /\ AllIdle /\ nRemoves >= 1
    /\ \E i \in 1..Len(trains["200"].announcements) - 1 :
           LET s == trains["200"].announcements
           IN  s[i].createdAt = s[i + 1].createdAt /\ s[i].text # s[i + 1].text

\* C4: the list a create writes holds only entries whose age at the write is at
\* most 6 hours; an entry read that is older is absent from the written list.
C4_WrittenWithinKeepWindow ==
    [][\A w \in Writers : SaveWriteStep(w) =>
          \A a \in Range(trains'[writer[w].trainNumber].announcements) :
              WithinKeepWindow(a)]_vars

\* a create has just written a preloaded partition an hour into the run: the
\* preloaded entries older than 6 hours are gone, younger ones are still there
C4_Witness ==
    /\ lastDone.op = "save" /\ lastDone.ann.createdAt = now /\ now > StartClock
    /\ \E a \in Range(trains["200"].announcements) : a.text = 0
    /\ \A a \in Range(trains["200"].announcements) : a.createdAt # 1

\* timestamps a caller can pass: past, present and (skewed clocks) future
Timestamps == 0..(StartClock + (MaxHours + 1) * MsPerHour)

\* C5: for every timestamp t and clock value n, shouldDisplay(t) under n
\* implies shouldKeep(t) under n, isWithinHours(t, h) being n - t <= h hours.
C5_DisplayImpliesKeep ==
    \A t \in Timestamps :
        /\ shouldDisplayAnnouncement(t, now) => shouldKeepAnnouncement(t, now)
        /\ \A h \in {DisplayHours, KeepHours} :
               isWithinHours(t, h, now) <=> (now - t <= h * MsPerHour)

\* stored entries on both sides: one displayed (and kept), one kept but not
\* displayed
C5_Witness ==
    /\ \E a \in Stored : shouldDisplayAnnouncement(a.createdAt, now)
    /\ \E a \in Stored : /\ shouldKeepAnnouncement(a.createdAt, now)
                         /\ ~shouldDisplayAnnouncement(a.createdAt, now)

\* C8: a create writes the list it computed from its own snapshot, so an
\* entry stored since that snapshot was read (another writer's announcement) is
\* not in the list it leaves: two creates that read the same pre-update list
\* both succeed and the one that writes first loses its announcement.
C8_LastWriterWins ==
    [][\A w \in Writers : SaveWriteStep(w) =>
          LET t == writer[w].trainNumber
              unseen == Range(trains[t].announcements)
                            \ (Range(SnapshotAnnouncements(writer[w].snapshot))
                               \cup {writer[w].ann})
          IN  Range(trains'[t].announcements) \cap unseen = {}]_vars

\* both creates completed, nothing was removed, expired or evicted, and one of
\* the two announcements is not in its partition
C8_Witness ==
    /\ AllIdle /\ ~sequential /\ nRemoves = 0 /\ Cardinality(created) = 2
    /\ \A c \in created : WithinKeepWindow(c.ann)
    /\ \A t \in Trains : Len(trains[t].announcements) < MAX_ANNOUNCEMENTS
    /\ \E c \in created : c.ann \notin Range(trains[c.trainNumber].announcements)

\* C9: after create(A) then remove(A) on the same train partition, with no
\* other operation interleaved, no stored entry of it has A's createdAt.
C9_DeleteRoundTrip ==
    (/\ AllIdle /\ sequential
     /\ lastDone.op = "delete" /\ lastDone.result = "ok"
     /\ [trainNumber |-> lastDone.trainNumber, ann |-> lastDone.ann] \in created)
        => \A a \in Range(trains[lastDone.trainNumber].announcements) :
               a.createdAt # lastDone.ann.createdAt

\* the remove of the one announcement created in a run without overlap has
\* completed
C9_Witness ==
    /\ AllIdle /\ sequential /\ nCreates = 1 /\ nRemoves = 1
    /\ lastDone.op = "delete" /\ lastDone.result = "ok"
    /\ [trainNumber |-> lastDone.trainNumber, ann |-> lastDone.ann] \in created

NoMatch(announcements, a) ==
    \A b \in Range(announcements) : b.createdAt # a.createdAt

\* w's remove read no document: it rejects and writes nothing
RejectsMissing(w) ==
    (DeleteWriteStep(w) /\ ~writer[w].snapshot.exists) =>
        /\ writer'[w].pc = "idle"
        /\ lastDone' = Outcome("delete", w, "error")
        /\ trains' = trains /\ lines' = lines

\* w's remove read a document none of whose entries has the createdAt given
NoMatchWrite(w) ==
    /\ DeleteWriteStep(w) /\ writer[w].snapshot.exists
    /\ NoMatch(writer[w].snapshot.announcements, writer[w].ann)

\* w's remove leaves the stored list as it is and completes without error
LeavesListAndCompletes(w) ==
    /\ trains'[writer[w].trainNumber].announcements
           = trains[writer[w].trainNumber].announcements
    /\ \/ writer'[w].pc = "deleteLine"
       \/ lastDone' = Outcome("delete", w, "ok")

\* w's remove completes without error once its line document is deleted
LineStepCompletes(w) ==
    (writer[w].pc = "deleteLine" /\ writer'[w].pc # "deleteLine") =>
        lastDone' = Outcome("delete", w, "ok")

----------------------------------------------------------------------------
\* Properties of reads and live emissions

\* the line listener of the combined subscription fires
LineEmits == sub.pc = "open" /\ sub.linePending /\ sub'.pc = "open" /\ ~sub'.linePending

\* the train listener of the combined subscription fires
TrainEmits == sub.pc = "open" /\ sub.trainPending /\ sub'.pc = "open" /\ ~sub'.trainPending

\* getAnnouncements returns its list
ReadReturns == reader.pc = "got" /\ reader'.pc = "idle"

\* occurrences of a in s
Count(s, a) == Cardinality({i \in 1..Len(s) : s[i] = a})

\* C6: every list returned by getAnnouncements and every list handed
\* to onUpdate by the train, line and combined subscriptions holds only
\* entries at most 1 hour old at the emission, and the line and combined
\* paths select exactly the entries that shouldDisplayAnnouncement selects.
C6_DisplayWindowAtEmission ==
    [][/\ ReadReturns => \A a \in Range(reader'.returned) : WithinDisplayWindow(a)
       /\ TrainEmits => \A a \in Range(sub'.trainAnnouncements) : WithinDisplayWindow(a)
       /\ LineEmits =>
              /\ \A a \in Range(sub'.lineAnnouncements) : WithinDisplayWindow(a)
              /\ Range(sub'.lineAnnouncements) =
                     {d.data : d \in {e \in lines[sub.lineNumber] :
                                         shouldDisplayAnnouncement(e.data.createdAt, now)}}
       /\ LineEmits \/ TrainEmits =>
              /\ \A a \in Range(sub'.emitted) : WithinDisplayWindow(a)
              /\ \A a \in Range(sub'.lineAnnouncements) \cup Range(sub'.trainAnnouncements) :
                     a \in Range(sub'.emitted) <=> shouldDisplayAnnouncement(a.createdAt, now)]_vars

\* the disposed subscription last emitted an entry exactly one hour old while
\* the line partition held an older document, and getAnnouncements has since
\* returned fewer entries than the train document stores
C6_Witness ==
    /\ sub.pc = "closed" /\ sub.hasEmitted
    /\ \E a \in Range(sub.emitted) : now - a.createdAt = DisplayHours * MsPerHour
    /\ \E d \in lines[sub.lineNumber] : now - d.data.createdAt > DisplayHours * MsPerHour
    /\ reader.hasReturned /\ reader.pc = "idle" /\ reader.returned # <<>>
    /\ Len(reader.returned) < Len(trains[reader.trainNumber].announcements)

\* C7: every emission of the combined subscription is the line buffer
\* followed by the train buffer (each the last list its listener delivered,
\* empty before its first delivery), restricted to the entries at most 1 hour
\* old and sorted by createdAt descending: the same entries, as often.
C7_CombinedEmission ==
    [][LineEmits \/ TrainEmits =>
          LET both == sub'.lineAnnouncements \o sub'.trainAnnouncements
              inWindow == SelectSeq(both, WithinDisplayWindow)
          IN  /\ Len(sub'.emitted) = Len(inWindow)
              /\ \A a \in Range(both) \cup Range(sub'.emitted) :
                     Count(sub'.emitted, a) = Count(inWindow, a)
              /\ SortedDesc(sub'.emitted)
              /\ LineEmits => sub'.trainAnnouncements = sub.trainAnnouncements
              /\ TrainEmits => sub'.lineAnnouncements = sub.lineAnnouncements
              /\ ~sub.hasEmitted =>
                     \/ LineEmits /\ sub'.trainAnnouncements = <<>>
                     \/ TrainEmits /\ sub'.lineAnnouncements = <<>>]_vars

\* an emission merged a line buffer of two entries with a train buffer holding
\* a third createdAt, and left out a buffered entry that had aged past the hour
C7_Witness ==
    /\ sub.pc = "open" /\ sub.hasEmitted
    /\ Len(sub.lineAnnouncements) >= 2
    /\ \E a \in Range(sub.trainAnnouncements) :
           \A b \in Range(sub.lineAnnouncements) : a.createdAt # b.createdAt
    /\ Len(sub.emitted) >= 3
    /\ Len(sub.emitted) < Len(sub.lineAnnouncements) + Len(sub.trainAnnouncements)
    /\ \E a \in Range(sub.lineAnnouncements) \cup Range(sub.trainAnnouncements) :
           a \notin Range(sub.emitted)

----------------------------------------------------------------------------
\* Properties of the dual write to the train and line partitions

\* writer w's saveAnnouncement with a lineNumber resolves
SaveLineCompletes(w) == writer[w].pc = "saveLine" /\ writer'[w].pc = "idle"

\* writer w's deleteAnnouncement settles: it throws or resolves
DeleteSettles(w) == writer[w].pc \in {"deleteSet", "deleteLine"} /\ writer'[w].pc = "idle"

\* announcement a is in the stored list of train t and in line l under the
\* decimal string of its createdAt
InBothPartitions(a, t, l, trainDocs, lineDocs) ==
    /\ a \in Range(trainDocs[t].announcements)
    /\ \E d \in lineDocs[l] : d.key = DecimalString(a.createdAt) /\ d.data = a

C12_RemoveDeletesLineEntry ==
    [][\A w \in Writers : (DeleteSettles(w) /\ writer[w].ann.lineNumber # NoLine) =>
          \A d \in lines'[writer[w].ann.lineNumber] :
              d.key # DecimalString(writer[w].ann.createdAt)]_vars

----------------------------------------------------------------------------
\* Properties of an announcement's lifecycle

\* no entry of the partition g names has the createdAt g names
OutOf(g, trainDocs) ==
    \A a \in Range(trainDocs[g.trainNumber].announcements) : a.createdAt # g.createdAt

----------------------------------------------------------------------------
\* Properties of calls whose store calls fail

\* writer w's call rejects after its line write or line delete failed
LineFailureRejects(w, failedPc) == writer[w].pc = failedPc /\ writer'[w].pc = "idle"

\* the call of w that settles in this step rejects with the store's error
RejectsWithStoreError(op, w) ==
    /\ lastDone'.op = op /\ lastDone'.result = StoreError
    /\ lastDone'.ann = writer[w].ann /\ lastDone'.trainNumber = writer[w].trainNumber

\* no document of line l holds announcement a
NotInLine(a, l, lineDocs) == \A d \in lineDocs[l] : d.data # a

C15_FailuresReraised ==
    [][/\ \A w \in Writers : writer[w].pc \in FailedPcs =>
              \/ writer'[w] = writer[w]
              \/ /\ writer'[w].pc = "idle"
                 /\ lastDone'.result = StoreError /\ lastDone'.rejected
                 /\ lastDone'.ann = writer[w].ann
                 /\ lastDone'.op = (IF writer[w].pc \in {"saveGetFailed", "saveSetFailed",
                                                          "saveLineFailed"}
                                    THEN "save" ELSE "delete")
       /\ \A w \in Writers :
              (/\ writer'[w].pc # writer[w].pc
               /\ \/ writer'[w].pc \in {"saveGetFailed", "deleteGetFailed"}
                  \/ writer[w].pc \in {"saveGetFailed", "deleteGetFailed"})
                  => trains' = trains /\ lines' = lines
       /\ reader.pc = "failed" =>
              \/ reader' = reader
              \/ reader'.pc = "idle" /\ reader'.rejected /\ ~reader'.hasReturned]_vars

\* a create whose call failed was rejected, the preloaded partitions are as
\* they were, and a listAll whose read failed was rejected
C15_Witness ==
    /\ AllIdle /\ lastDone.op = "save" /\ lastDone.result = StoreError
    /\ created = {} /\ nCreates >= 1
    /\ trains["200"] = Preloaded /\ lines = PreloadedLines
    /\ reader.pc = "idle" /\ reader.rejected

----------------------------------------------------------------------------
\* Properties of what a subscriber holds between emissions

\* the clock value of the combined subscription's last emission
EmittedAt == IF sub.lineAt > sub.trainAt THEN sub.lineAt ELSE sub.trainAt

\* every entry of list s was at most 1 hour old at clock value at
FreshAt(s, at) == \A a \in Range(s) : at - a.createdAt <= DisplayHours * MsPerHour

\* C16 as stated: at every instant the list most recently delivered to a
\* train, line or combined subscriber holds only entries at most 1 hour old
\* at that instant, also when the clock advances and nothing is written.
C16_FreshAtEveryInstant ==
    sub.pc = "open" =>
        /\ FreshAt(sub.trainAnnouncements, now)
        /\ FreshAt(sub.lineAnnouncements, now)
        /\ FreshAt(sub.emitted, now)

\* C16 as amended: the list most recently delivered to a train, line or
\* combined subscriber holds only entries that were at most 1 hour old at the
\* moment of that delivery; it is not filtered again until the next delivery.
C16_FreshWhenDelivered ==
    /\ FreshAt(sub.trainAnnouncements, sub.trainAt)
    /\ FreshAt(sub.lineAnnouncements, sub.lineAt)
    /\ FreshAt(sub.emitted, EmittedAt)
    /\ sub.trainAt <= now /\ sub.lineAt <= now

\* the clock has advanced since the last emission of the open subscription
\* and nothing was delivered since: the list the consumer holds has an entry
\* that is now older than 1 hour
C16_Witness ==
    /\ sub.pc = "open" /\ sub.hasEmitted /\ ~sub.linePending /\ ~sub.trainPending
    /\ EmittedAt < now
    /\ \E a \in Range(sub.emitted) :
           /\ now - a.createdAt > DisplayHours * MsPerHour
           /\ EmittedAt - a.createdAt <= DisplayHours * MsPerHour

\* getAnnouncements performs its getDoc
ReadReads == reader.pc = "idle" /\ reader'.pc = "got"

\* the last call to complete is a create on trainNumber that succeeded, and no
\* call is in progress
JustCreatedOn(trainNumber) ==
    /\ AllIdle
    /\ lastDone.op = "save" /\ lastDone.result = "ok"
    /\ lastDone.trainNumber = trainNumber

\* C18: when the announcer's last call is a create that completed and
\* no call is in progress, the getDoc of a getAnnouncements on that train reads a
\* document holding the announcement just created, whatever the document held
\* before (20 entries included), and getAnnouncements returns every entry of the
\* document it read that is within the display window when it returns.
C18_ReadsOwnWrite ==
    [][/\ ReadReads /\ JustCreatedOn(reader'.trainNumber) =>
             /\ reader'.snapshot.exists
             /\ lastDone.ann \in Range(reader'.snapshot.announcements)
       /\ ReadReturns =>
             \A a \in Range(SnapshotAnnouncements(reader.snapshot)) :
                 WithinDisplayWindow(a) => a \in Range(reader'.returned)]_vars

\* a getAnnouncements issued after a create on a full train document has returned
\* the announcement just created
C18_Witness ==
    /\ JustCreatedOn(reader.trainNumber)
    /\ reader.pc = "idle" /\ reader.hasReturned
    /\ lastDone.ann \in Range(reader.returned)
    /\ Len(trains[reader.trainNumber].announcements) = MAX_ANNOUNCEMENTS

KeptButHidden(a) == ~WithinDisplayWindow(a) /\ WithinKeepWindow(a)

\* the entries of a train document that are more than 1 hour and at most 6 hours old
HiddenEntries(trainDoc) ==
    {a \in Range(SnapshotAnnouncements(trainDoc)) : KeptButHidden(a)}

\* C20: an entry of a train document that is more than 1 hour and at
\* most 6 hours old is written back by a create that read it, unless that create
\* applies the 20-entry cap; it is in no list getAnnouncements returns from the
\* document, and in no list the train, line or combined subscription hands to
\* onUpdate at that time.
C20_KeptButHidden ==
    [][/\ \A w \in Writers : SaveWriteStep(w) =>
              \A a \in HiddenEntries(writer[w].snapshot) :
                  \/ a \in Range(trains'[writer[w].trainNumber].announcements)
                  \/ Len(KeptAtWrite(w)) > MAX_ANNOUNCEMENTS
       /\ ReadReturns => HiddenEntries(reader.snapshot) \cap Range(reader'.returned) = {}
       /\ TrainEmits =>
              \A t \in Trains :
                  HiddenEntries(trains[t]) \cap
                      (Range(sub'.trainAnnouncements) \cup Range(sub'.emitted)) = {}
       /\ LineEmits =>
              \A t \in Trains :
                  HiddenEntries(trains[t]) \cap
                      (Range(sub'.lineAnnouncements) \cup Range(sub'.emitted)) = {}]_vars

\* at one clock value: a create has completed on a train document that still
\* stores an entry more than 1 hour old, getAnnouncements has returned the new
\* announcement without that entry, and the combined subscription on that train
\* emitted without it
C20_Witness ==
    /\ AllIdle /\ lastDone.op = "save" /\ lastDone.result = "ok"
    /\ lastDone.ann.createdAt = now
    /\ sub.trainNumber = lastDone.trainNumber /\ sub.hasEmitted /\ sub.trainAt = now
    /\ reader.pc = "idle" /\ reader.hasReturned /\ reader.prior.at = now
    /\ reader.prior.trainNumber = lastDone.trainNumber
    /\ lastDone.ann \in Range(reader.returned)
    /\ \E h \in HiddenEntries(trains[lastDone.trainNumber]) :
           /\ h \notin Range(reader.returned)
           /\ h \notin Range(sub.emitted)

----------------------------------------------------------------------------
\* Properties of the subscription life cycle

\* the subscribe operations subscribeToCombinedAnnouncements has invoked so far
Invoked ==
    CASE sub.pc = "none" -> 0
      [] sub.pc = "lineDone" -> 1
      [] OTHER -> 2

\* the underlying subscriptions that failed to establish
FailedToEstablish ==
    Count(sub.errs, LineSubscribeError) + Count(sub.errs, TrainSubscribeError)

\* a listener hands a list to the consumer's onUpdate
OnUpdateInvoked ==
    \/ sub.linePending /\ ~sub'.linePending /\ sub'.lineOn
    \/ sub.trainPending /\ ~sub'.trainPending /\ sub'.trainOn

\* C21: once the disposer has run, the store holds neither the line
\* listener nor the train listener of the subscription, and nothing of the
\* consumer's subscription changes any more: no snapshot becomes due, no buffer
\* is filled and onUpdate is not invoked, whatever is written afterwards.
C21_DisposerDetaches ==
    [][sub.pc = "closed" =>
          /\ ~sub.lineOn /\ ~sub.trainOn
          /\ ~OnUpdateInvoked
          /\ sub' = sub]_vars

\* the disposer of a subscription with both listeners established has run, and a
\* create on the subscribed train and line has since completed: its announcement
\* is stored in both partitions, within the display window and not emitted
C21_Witness ==
    /\ sub.pc = "closed" /\ sub.opened = 2 /\ sub.errs = <<>> /\ sub.hasEmitted
    /\ AllIdle /\ lastDone.op = "save" /\ lastDone.result = "ok"
    /\ lastDone.trainNumber = sub.trainNumber
    /\ lastDone.ann.lineNumber = sub.lineNumber
    /\ lastDone.ann \in Range(trains[sub.trainNumber].announcements)
    /\ LineDoc(lastDone.ann) \in lines[sub.lineNumber]
    /\ WithinDisplayWindow(lastDone.ann)
    /\ lastDone.ann \notin Range(sub.emitted)

\* C22: when subscribeToLineAnnouncements or subscribeToAnnouncements
\* fails to establish, onError is invoked once with that failure and no store
\* subscription is opened for it then or later; subscribeToCombinedAnnouncements
\* goes on to its next step and returns its disposer; and while the other
\* listener is attached, a write to its partition makes a snapshot due, whose
\* delivery invokes onUpdate with the combined list.
C22_OneSubscriptionFails ==
    [][/\ sub.pc = "none" /\ sub'.pc # "none" /\ ~sub'.lineOn =>
              /\ sub'.errs = Append(sub.errs, LineSubscribeError)
              /\ sub'.opened = sub.opened /\ sub'.pc = "lineDone"
       /\ sub.pc = "lineDone" /\ sub'.pc # "lineDone" /\ ~sub'.trainOn =>
              /\ sub'.errs = Append(sub.errs, TrainSubscribeError)
              /\ sub'.opened = sub.opened /\ sub'.pc = "open"
       /\ Count(sub'.errs, LineSubscribeError) <= 1
       /\ Count(sub'.errs, TrainSubscribeError) <= 1
       /\ sub'.opened + FailedToEstablish' = Invoked'
       /\ \A w \in Writers :
              SaveWriteStep(w) /\ sub.trainOn /\ writer[w].trainNumber = sub.trainNumber =>
                  sub'.trainPending
       /\ sub.trainOn /\ sub.trainPending /\ sub'.trainOn /\ ~sub'.trainPending =>
              /\ sub'.hasEmitted
              /\ sub'.emitted = Combine(sub.lineAnnouncements,
                                        TrainDelivery(trains[sub.trainNumber], now), now)
       /\ sub.lineOn /\ sub.linePending /\ sub'.lineOn /\ ~sub'.linePending =>
              /\ sub'.hasEmitted
              /\ sub'.emitted = Combine(LineDelivery(lines[sub.lineNumber], now),
                                        sub.trainAnnouncements, now)]_vars

\* the line subscription failed to establish, the disposer has been returned, and
\* the train listener has delivered an announcement created since
C22_Witness ==
    /\ sub.pc = "open" /\ sub.errs = <<LineSubscribeError>> /\ sub.opened = 1
    /\ sub.trainOn /\ ~sub.trainPending /\ sub.hasEmitted
    /\ lastDone.op = "save" /\ lastDone.result = "ok"
    /\ lastDone.ann \in Range(sub.emitted)
    /\ sub.lineAnnouncements = <<>>

\* C28: a failure of the line or train listener's channel invokes
\* onError once with that failure and opens no store subscription; the number of
\* store subscriptions opened never exceeds the number of subscribe operations
\* invoked, and equals it when each of them established its listener.
C28_ChannelErrorForwarded ==
    [][/\ sub.lineOn /\ ~sub'.lineOn /\ sub'.pc = sub.pc =>
              /\ sub'.errs = Append(sub.errs, LineChannelError)
              /\ sub'.opened = sub.opened
       /\ sub.trainOn /\ ~sub'.trainOn /\ sub'.pc = sub.pc =>
              /\ sub'.errs = Append(sub.errs, TrainChannelError)
              /\ sub'.opened = sub.opened
       /\ sub'.opened <= Invoked'
       /\ FailedToEstablish' = 0 => sub'.opened = Invoked'
       /\ Count(sub'.errs, LineChannelError) + Count(sub'.errs, TrainChannelError)
              <= sub'.opened]_vars

\* both channels have failed after both listeners were established: two errors
\* forwarded, two store subscriptions opened, no listener left, and a write that
\* came later is stored but not emitted
C28_Witness ==
    /\ sub.pc = "open" /\ sub.opened = 2 /\ ~sub.lineOn /\ ~sub.trainOn
    /\ Len(sub.errs) = 2
    /\ Count(sub.errs, LineChannelError) = 1 /\ Count(sub.errs, TrainChannelError) = 1
    /\ sub.hasEmitted
    /\ AllIdle /\ lastDone.op = "save" /\ lastDone.result = "ok"
    /\ lastDone.trainNumber = sub.trainNumber
    /\ lastDone.ann \in Range(trains[sub.trainNumber].announcements)
    /\ WithinDisplayWindow(lastDone.ann)
    /\ lastDone.ann \notin Range(sub.emitted)

\* both listeners of the open subscription have delivered and no snapshot is due
BothBuffersFilled ==
    /\ sub.pc = "open" /\ sub.lineOn /\ sub.trainOn
    /\ sub.lineAt > 0 /\ sub.trainAt > 0
    /\ ~sub.linePending /\ ~sub.trainPending

\* a is stored in the subscribed train document and, under its createdAt, in the
\* subscribed line collection, and was within the display window at the last
\* emission
InBothSubscribed(a) ==
    /\ a \in Range(SnapshotAnnouncements(trains[sub.trainNumber]))
    /\ a.lineNumber = sub.lineNumber
    /\ LineDoc(a) \in lines[sub.lineNumber]
    /\ EmittedAt - a.createdAt <= DisplayHours * MsPerHour

\* C23: once both listeners of a combined subscription have delivered
\* the current state of their partitions, an announcement stored in the train
\* document and in the line collection and within the display window is twice in
\* the list last handed to onUpdate.
C23_NoDeduplication ==
    BothBuffersFilled =>
        \A a \in Range(SnapshotAnnouncements(trains[sub.trainNumber])) :
            InBothSubscribed(a) => Count(sub.emitted, a) = 2

\* the last emission holds twice an announcement created with a line during the
\* subscription
C23_Witness ==
    /\ BothBuffersFilled
    /\ lastDone.op = "save" /\ lastDone.result = "ok"
    /\ InBothSubscribed(lastDone.ann)
    /\ Count(sub.emitted, lastDone.ann) = 2
    /\ Len(sub.emitted) > 2

\* the creates of the run that stamped createdAt on trainNumber
CreatedAt(trainNumber, createdAt) ==
    {c \in created : c.trainNumber = trainNumber /\ c.ann.createdAt = createdAt}

\* C24: the list a remove writes holds no entry with the createdAt of
\* the announcement given, however many entries of the list it read have it, and
\* holds every other entry of that list in the same order.
C24_RemovesEveryMatch ==
    [][\A w \in Writers : DeleteWriteStep(w) /\ writer[w].snapshot.exists =>
          LET read == writer[w].snapshot.announcements
              written == trains'[writer[w].trainNumber].announcements
          IN  /\ \A b \in Range(read) :
                     b.createdAt = writer[w].ann.createdAt => b \notin Range(written)
              /\ written = SelectSeq(read,
                     LAMBDA b : b.createdAt # writer[w].ann.createdAt)]_vars

\* two creates stamped with the same clock value completed on one train, one
\* after the other, and the remove of one of the two announcements then
\* completed: neither is stored
C24_Witness ==
    /\ AllIdle /\ sequential /\ nCreates = 2 /\ nRemoves = 1
    /\ lastDone.op = "delete" /\ lastDone.result = "ok"
    /\ Cardinality(CreatedAt(lastDone.trainNumber, lastDone.ann.createdAt)) = 2
    /\ [trainNumber |-> lastDone.trainNumber, ann |-> lastDone.ann] \in created
    /\ \A c \in created : c.ann \notin Range(trains[c.trainNumber].announcements)
    /\ lastDone.gone # {}

----------------------------------------------------------------------------
\* Properties of expiry

\* a call of a writer performs its setDoc on trainNumber's document
SaveWritesTo(trainNumber) ==
    \E w \in Writers : SaveWriteStep(w) /\ writer[w].trainNumber = trainNumber

DeleteWritesTo(trainNumber) ==
    \E w \in Writers : DeleteWriteStep(w) /\ writer[w].trainNumber = trainNumber

\* a call of a writer performs its setDoc or deleteDoc on a line document
LineWriteStep ==
    \E w \in Writers : writer[w].pc \in {"saveLine", "deleteLine"} /\ writer'[w].pc = "idle"

\* the stored entries of trainNumber that have left the keep window
Expired(trainNumber) ==
    {a \in Range(trains[trainNumber].announcements) : ~WithinKeepWindow(a)}

\* getAnnouncements, the listeners' callbacks and the clock write nothing: a
\* train document changes only at the setDoc of a create or a remove, a line
\* collection only at their line steps
OnlyWritersWrite ==
    /\ \A t \in Trains : trains'[t] # trains[t] => SaveWritesTo(t) \/ DeleteWritesTo(t)
    /\ lines' # lines => LineWriteStep
    /\ (ReadReads \/ ReadReturns \/ OnUpdateInvoked \/ now' # now) =>
           trains' = trains /\ lines' = lines

\* C25, as claimed: only create and remove change a stored list, and
\* an entry older than 6 hours stays stored at every step but the setDoc of a
\* create on its train.
C25_StaysUntilNextCreate ==
    [][/\ OnlyWritersWrite
       /\ \A t \in Trains : \A a \in Expired(t) :
              a \in Range(trains'[t].announcements) \/ SaveWritesTo(t)]_vars

\* C25, as the code has it: only create and remove change a stored
\* list, and an entry older than 6 hours stays stored at every step but the
\* setDoc of a create on its train and the setDoc of a remove on its train that
\* was given its createdAt or had read the list before the entry was in it.
C25_LazyExpiry ==
    [][/\ OnlyWritersWrite
       /\ \A t \in Trains : \A a \in Expired(t) :
              \/ a \in Range(trains'[t].announcements)
              \/ SaveWritesTo(t)
              \/ \E w \in Writers :
                     /\ DeleteWriteStep(w) /\ writer[w].trainNumber = t
                     /\ \/ writer[w].ann.createdAt = a.createdAt
                        \/ a \notin Range(writer[w].snapshot.announcements)]_vars

\* with no create in the run, a remove has taken an entry older than 6 hours out
\* of a train document that still stores another one, after the subscription
\* emitted and getAnnouncements returned
C25_Witness ==
    /\ AllIdle /\ nCreates = 0
    /\ lastDone.op = "delete" /\ lastDone.result = "ok"
    /\ ~WithinKeepWindow(lastDone.ann) /\ lastDone.gone # {}
    /\ lastDone.ann \notin Range(trains[lastDone.trainNumber].announcements)
    /\ Expired(lastDone.trainNumber) # {}
    /\ sub.hasEmitted
    /\ reader.hasReturned /\ reader.prior.trainNumber = lastDone.trainNumber

----------------------------------------------------------------------------
\* Properties of live delivery

\* the announcements created on the subscribed train that are stored there and
\* within the display window while the train listener is attached
Owed ==
    {c.ann : c \in {d \in created :
        /\ sub.trainOn /\ d.trainNumber = sub.trainNumber
        /\ d.ann \in Range(trains[sub.trainNumber].announcements)
        /\ WithinDisplayWindow(d.ann)}}

\* the consumer has been handed a list holding every announcement it is owed
Served ==
    \A a \in Owed : a \in Range(sub.trainAnnouncements) /\ a \in Range(sub.emitted)

\* C26: when the store delivers every snapshot it owes, an
\* announcement whose create on the subscribed train has completed is eventually
\* in a list handed to onUpdate, unless the listener is detached, the
\* announcement leaves the stored list or it leaves the display window first.
C26_EventuallyDelivered == ~Served ~> Served

\* an announcement created while the subscription was open, after its first
\* emission, is in the list last handed to onUpdate
C26_Witness ==
    /\ sub.pc = "open" /\ sub.trainOn /\ ~sub.trainPending
    /\ AllIdle /\ lastDone.op = "save" /\ lastDone.result = "ok"
    /\ lastDone.ann.lineNumber = NoLine
    /\ lastDone.ann \in Owed
    /\ lastDone.ann \in Range(sub.emitted)
    /\ Len(sub.emitted) > 1

----------------------------------------------------------------------------
\* Properties of the line partitions

WithoutLineEntry ==
    {a \in Stored :
        /\ a.lineNumber # NoLine
        /\ \A d \in lines[a.lineNumber] : d.key # DecimalString(a.createdAt)}

\* C29: whenever no create or remove is in progress, every entry of a
\* train document that carries a lineNumber has a document under the decimal
\* string of its createdAt in that line collection, for every interleaving of
\* the calls of several writers.
C29_LineEntryForEveryTrainEntry ==
    AllIdle => WithoutLineEntry = {}

----------------------------------------------------------------------------
\* C30: on a live screen, after any sequence of connect, start-session,
\* disconnect and unmount events with the awaited steps of connect and
\* start-session resuming in any order, the subscriptions the screen opened
\* and has not disposed number at most 1 while it is mounted and 0 once it
\* has unmounted.
C30_AtMostOneThenNone ==
    Cardinality(screen.open) <= (IF screen.mounted THEN 1 ELSE 0)

============================================================================
